---- MODULE Spec2Model ----
(***************************************************************************)
(* A model of tablespanner's layout engine.                                *)
(*                                                                         *)
(* src/src/engine.rs holds the engine: Span, RowSpanTracker, cell_fits and *)
(* layout_table.  src/src/lib.rs holds an earlier engine (ActiveRowSpans   *)
(* and a cursor-walk layout_table).  The engine.rs layout_table is         *)
(* modelled as a state machine, one action per loop iteration; the lib.rs  *)
(* layout_table is modelled as a function of its two arguments.            *)
(*                                                                         *)
(* Option<T> is modelled as a sequence: None is <<>>, Some(x) is <<x>>.    *)
(* A HashMap is modelled as a function on its set of keys.  Column indices *)
(* are 0-based as in the source; TLA+ sequences are 1-based, so the entry  *)
(* of column c of a row is row[c + 1] and row.len() is Len(row).           *)
(***************************************************************************)
EXTENDS Integers, Sequences, FiniteSets, TLC

\* ------------------------------------------------------------------------
\* Bounds of the model
\* ------------------------------------------------------------------------

\* largest number of rows of an enumerated input table
MaxRows == 3
\* largest number of anchors of an enumerated input table, all rows together
MaxCells == 3
\* largest rows argument handed to Span::new by the enumerated callers
MaxSpanRows == 2
\* largest cols argument handed to Span::new by the enumerated callers
MaxSpanCols == 2
\* largest column handed to the tracker by the enumerated tracker callers
MaxTrackCol == 1
\* largest row count handed to track by the enumerated tracker callers
MaxTrackRows == 3

\* ------------------------------------------------------------------------
\* Option and HashMap
\* ------------------------------------------------------------------------

None == <<>>

Some(x) == <<x>>

IsSome(o) == o # None

Unwrap(o) == o[1]

EmptyMap == <<>>

MapInsert(m, k, v) == [x \in (DOMAIN m) \cup {k} |-> IF x = k THEN v ELSE m[x]]

SetMax(S) == CHOOSE x \in S : \A y \in S : y <= x

\* vec![None; n]
Nones(n) == [i \in 1..n |-> None]

\* ------------------------------------------------------------------------
\* Span (engine.rs 9-40, lib.rs 10-44)
\* ------------------------------------------------------------------------

Span(rows, cols) == [rows |-> rows, cols |-> cols]

\* A mutant of SpanNew: only the rows dimension is validated.
SpanNewRowsOnly(rows, cols) ==
    IF rows = 0 THEN None ELSE Some(Span(rows, cols))

\* Span::new: None stands for the panic (no Span is produced).
SpanNew(rows, cols) ==
    IF rows = 0 THEN None
    ELSE IF cols = 0 THEN None
    ELSE Some(Span(rows, cols))

\* A mutant of SpanDefault: the default span covers two columns.
SpanDefaultWide == Unwrap(SpanNew(1, 2))

\* impl Default for Span
SpanDefault == Unwrap(SpanNew(1, 1))

\* spaninfo.get(&cell).cloned().unwrap_or_default()
Lookup(info, cell) == IF cell \in DOMAIN info THEN info[cell] ELSE SpanDefault

\* ------------------------------------------------------------------------
\* RowSpanTracker (engine.rs 65-108)
\* ------------------------------------------------------------------------

\* A mutant of track: the count is stored one too high.
track_off_by_one(m, col_index, row_count) ==
    IF row_count > 1 THEN MapInsert(m, col_index, row_count + 1) ELSE m

track(m, col_index, row_count) ==
    IF row_count > 1 THEN MapInsert(m, col_index, row_count) ELSE m

\* A mutant of dec: an entry is removed only once its count is 0.
dec_late(m) ==
    [k \in {k \in DOMAIN m : m[k] > 0} |-> m[k] - 1]

\* A mutant of dec: a count of 1 is left as it is instead of being removed.
dec_keeps_last(m) ==
    [k \in DOMAIN m |-> IF m[k] > 1 THEN m[k] - 1 ELSE m[k]]

\* Every key of the snapshot is visited once: a count > 1 is lowered by one,
\* any other entry is removed.
dec(m) ==
    [k \in {k \in DOMAIN m : m[k] > 1} |-> m[k] - 1]

spanned(m, col_index) ==
    (IF col_index \in DOMAIN m THEN m[col_index] ELSE 0) > 0

\* A mutant of max_spanned: the lowest blocked column is reported.
min_spanned(m) ==
    IF DOMAIN m = {} THEN None
    ELSE Some(CHOOSE x \in DOMAIN m : \A y \in DOMAIN m : x <= y)

max_spanned(m) ==
    IF DOMAIN m = {} THEN None ELSE Some(SetMax(DOMAIN m))

\* A mutant of cell_fits: only the candidate column itself is examined, as
\* the cursor walk of lib.rs does.
cell_fits_first_only(col, col_count, m) == ~spanned(m, col)

cell_fits(col, col_count, m) ==
    \A peek \in col..(col + col_count - 1) : ~spanned(m, peek)

\* ------------------------------------------------------------------------
\* layout_table of engine.rs: the body of the loop over the cells of a row
\* ------------------------------------------------------------------------

\* engine.rs 140-143: for _ in 1..span.cols { track(row.len(), span.rows);
\* row.push(None) }, n iterations left.  st is [row, ars].
RECURSIVE push_spanned(_, _, _)
push_spanned(st, rows, n) ==
    IF n <= 0 THEN st
    ELSE push_spanned([ars |-> track(st.ars, Len(st.row), rows),
                       row |-> Append(st.row, None)], rows, n - 1)

\* A mutant of place: the loop over the spanned columns starts at 0.
place_extra_column(buf, ars, cell, span) ==
    push_spanned([ars |-> track(ars, Len(buf), span.rows),
                  row |-> Append(buf, Some(cell))],
                 span.rows, span.cols)

\* A mutant of place: the identifier is written into every column of the span.
place_dup(buf, ars, cell, span) ==
    LET st == push_spanned([ars |-> ars, row |-> buf], span.rows, span.cols)
    IN  [ars |-> st.ars,
         row |-> [i \in 1..Len(st.row) |->
                     IF i > Len(buf) THEN Some(cell) ELSE st.row[i]]]

\* engine.rs 138-143: the anchor is tracked and written, then every further
\* column of its span is tracked and written as None.
place(buf, ars, cell, span) ==
    push_spanned([ars |-> track(ars, Len(buf), span.rows),
                  row |-> Append(buf, Some(cell))],
                 span.rows, span.cols - 1)

\* ------------------------------------------------------------------------
\* layout_table of lib.rs (87-119), as a function of its arguments
\* ------------------------------------------------------------------------

\* lib.rs 100-103: while active_row_spans.spanned(col) { row.push(None);
\* col += 1 }.  st is [row, col, ars].
RECURSIVE lib_skip(_)
lib_skip(st) ==
    IF spanned(st.ars, st.col)
    THEN lib_skip([st EXCEPT !.row = Append(@, None), !.col = @ + 1])
    ELSE st

\* lib.rs 110-114: for offset in 1..span.cols { track(col, span.rows);
\* row.push(None); col += 1 }, n iterations left.
RECURSIVE lib_push_spanned(_, _, _)
lib_push_spanned(st, rows, n) ==
    IF n <= 0 THEN st
    ELSE lib_push_spanned([ars |-> track(st.ars, st.col, rows),
                           row |-> Append(st.row, None),
                           col |-> st.col + 1], rows, n - 1)

\* lib.rs 99-115: one iteration of the loop over the cells of a row.
lib_cell(st0, info, cell) ==
    LET st   == lib_skip(st0)
        span == Lookup(info, cell)
    IN  lib_push_spanned([row |-> Append(st.row, Some(cell)),
                          ars |-> track(st.ars, st.col, span.rows),
                          col |-> st.col + 1],
                         span.rows, span.cols - 1)

\* lib.rs 97-115: the cells i.. of inrow.
RECURSIVE lib_cells(_, _, _, _)
lib_cells(st, info, inrow, i) ==
    IF i > Len(inrow) THEN st
    ELSE lib_cells(lib_cell(st, info, inrow[i]), info, inrow, i + 1)

\* lib.rs 96-118: the rows r.. of data; st is [table, ars].
RECURSIVE lib_rows(_, _, _, _)
lib_rows(st, info, d, r) ==
    IF r > Len(d) THEN st
    ELSE LET done == lib_cells([row |-> <<>>, col |-> 0, ars |-> st.ars],
                               info, d[r], 1)
         IN  lib_rows([table |-> Append(st.table, done.row),
                       ars |-> dec(done.ars)], info, d, r + 1)

lib_layout_table(info, d) ==
    lib_rows([table |-> <<>>, ars |-> EmptyMap], info, d, 1).table

\* ------------------------------------------------------------------------
\* The callers: the tests of engine.rs and lib.rs, and enumerated callers
\* ------------------------------------------------------------------------

Tests ==
    {"basic_table_layout", "layout_with_colspan", "layout_with_rowspan",
     "test_block_span", "test_overlapping_row_spans",
     "rowspan_blocking_colspans", "test_trailing_rowspans",
     "test_blocked_col_spans", "scenario_a"}

Rows3x3 == << <<"A", "B", "C">>, <<"D", "E", "F">>, <<"G", "H", "I">> >>

Rows5x3 == Rows3x3 \o << <<"J", "K", "L">>, <<"M", "N", "O">> >>

\* The input table of scenario A of the specification (no spans).
ScenarioAData == << <<"A", "B", "C">>, <<"D", "E", "F">> >>

\* The (rows, cols) arguments of the Span::new calls of each test.
TestSpanArgs(t) ==
    CASE t = "basic_table_layout"         -> EmptyMap
      [] t = "layout_with_colspan"        -> ("D" :> <<1, 2>>)
      [] t = "layout_with_rowspan"        -> ("E" :> <<2, 1>>)
      [] t = "test_block_span"            -> ("D" :> <<3, 2>>) @@ ("E" :> <<1, 2>>)
      [] t = "test_overlapping_row_spans" -> ("E" :> <<2, 1>>) @@ ("H" :> <<2, 1>>)
      [] t = "rowspan_blocking_colspans"  -> ("E" :> <<2, 1>>) @@ ("G" :> <<2, 2>>)
      [] t = "test_trailing_rowspans"     -> ("B" :> <<3, 1>>) @@ ("C" :> <<2, 1>>)
      [] t = "test_blocked_col_spans"     -> ("E" :> <<2, 1>>) @@ ("G" :> <<1, 2>>)
      [] t = "scenario_a"                 -> EmptyMap

TestData(t) ==
    CASE t = "basic_table_layout"         -> Rows3x3
      [] t = "layout_with_colspan"        ->
            << <<"A", "B", "C">>, <<"D", "E">>, <<"G", "H", "I">> >>
      [] t = "layout_with_rowspan"        ->
            << <<"A", "B", "C">>, <<"D", "E", "F">>, <<"G", "H">>,
               <<"J", "K", "L">> >>
      [] t = "test_block_span"            -> Rows5x3
      [] t = "test_overlapping_row_spans" -> Rows5x3
      [] t = "rowspan_blocking_colspans"  -> Rows5x3
      [] t = "test_trailing_rowspans"     -> << <<"A", "B", "C">> >>
      [] t = "test_blocked_col_spans"     -> Rows5x3
      [] t = "scenario_a"                 -> ScenarioAData

\* The spanspec a test builds: one Span::new call per insert.
TestSpanInfo(t) ==
    LET args == TestSpanArgs(t)
    IN  [id \in DOMAIN args |-> Unwrap(SpanNew(args[id][1], args[id][2]))]

\* The five scenarios of the specification and the tests that run them.
ScenarioA == "scenario_a"
ScenarioB == "layout_with_colspan"
ScenarioC == "layout_with_rowspan"
ScenarioD == "test_trailing_rowspans"
ScenarioE == "rowspan_blocking_colspans"
Scenarios == {ScenarioA, ScenarioB, ScenarioC, ScenarioD, ScenarioE}

\* The identifiers of the enumerated callers.  An identifier matters to the
\* engine only through its entry of the span table and its equality with
\* other identifiers; the tests bring inputs of up to fifteen identifiers.
Ids == {"A", "B"}

\* The rows of at most k anchors.
RowsUpTo(k) == UNION {[1..n -> Ids] : n \in 0..k}

\* The tables of at most n rows and at most k anchors, rows of any lengths,
\* empty rows included.
RECURSIVE TablesUpTo(_, _)
TablesUpTo(n, k) ==
    IF n = 0 THEN {<<>>}
    ELSE {<<>>} \cup
         UNION {{<<r>> \o t : t \in TablesUpTo(n - 1, k - Len(r))} : r \in RowsUpTo(k)}

\* The tables of the enumerated callers.
Tables == TablesUpTo(MaxRows, MaxCells)

\* ------------------------------------------------------------------------
\* State
\* ------------------------------------------------------------------------

VARIABLES
    pc,         \* "build": the caller builds the span table; "row": in the
                \* loop over the input rows; "trail": in the trailing-row
                \* loop; "done": layout_table returned; "panic": Span::new
                \* panicked
    test,       \* the test that called layout_table, "none" otherwise
    newargs,    \* <<rows, cols>> of the caller's last Span::new call
    spaninfo,   \* identifier -> Span
    data,       \* the input table
    table,      \* the output table built so far
    row,        \* the output row being built
    ri,         \* index of the input row being processed (1-based)
    ci,         \* index of the next cell of that row (1-based)
    active_row_spans,   \* the RowSpanTracker: column -> remaining rows
    calls,      \* tracker callers only: column -> [n, decs], the row count
                \* of the last effective track call on the column and the
                \* number of dec calls since (counted up to n)
    lastop      \* tracker callers only: the last call on the tracker

vars == <<pc, test, newargs, spaninfo, data, table, row, ri, ci,
          active_row_spans, calls, lastop>>

\* What the tracker callers record; layout_table leaves it alone.
tvars == <<calls, lastop>>

NoOp == [op |-> "none", col |-> 0, n |-> 0, changed |-> FALSE, hit |-> FALSE]

Init ==
    /\ pc = "build"
    /\ test = "none"
    /\ newargs = <<>>
    /\ spaninfo = EmptyMap
    /\ data = <<>>
    /\ table = <<>>
    /\ row = <<>>
    /\ ri = 1
    /\ ci = 1
    /\ active_row_spans = EmptyMap
    /\ calls = EmptyMap
    /\ lastop = NoOp

\* ------------------------------------------------------------------------
\* The caller
\* ------------------------------------------------------------------------

\* spanspec.insert(id, Span::new(rows, cols)): a panic ends the program, an
\* insert replaces the entry of id.
InsertSpan ==
    /\ pc = "build"
    /\ \E id \in Ids, rows \in 0..MaxSpanRows, cols \in 0..MaxSpanCols :
          LET s == SpanNew(rows, cols)
          IN  /\ newargs' = <<rows, cols>>
              /\ IF s = None
                 THEN pc' = "panic" /\ UNCHANGED spaninfo
                 ELSE pc' = pc /\ spaninfo' = MapInsert(spaninfo, id, Unwrap(s))
    /\ UNCHANGED <<test, data, table, row, ri, ci, active_row_spans, tvars>>

\* engine.rs 127-128: the call of layout_table.
Enter(info, d, t) ==
    /\ spaninfo' = info
    /\ data' = d
    /\ test' = t
    /\ newargs' = <<>>
    /\ table' = <<>>
    /\ active_row_spans' = EmptyMap
    /\ row' = <<>>
    /\ ri' = 1
    /\ ci' = 1
    /\ pc' = IF Len(d) = 0 THEN "trail" ELSE "row"
    /\ UNCHANGED tvars

\* layout_table(&spanspec, &data) on an enumerated table.
CallLayout ==
    /\ pc = "build"
    /\ \E d \in Tables : Enter(spaninfo, d, "none")

\* One of the tests: it builds its spanspec and calls layout_table.
RunTest ==
    /\ pc = "build"
    /\ spaninfo = EmptyMap
    /\ \E t \in Tests : Enter(TestSpanInfo(t), TestData(t), t)

\* ------------------------------------------------------------------------
\* layout_table of engine.rs (123-155)
\* ------------------------------------------------------------------------

InCell == pc = "row" /\ ci <= Len(data[ri])

\* engine.rs 132
CurSpan == Lookup(spaninfo, data[ri][ci])

\* engine.rs 134-136: one iteration of the while loop.
SkipColumn ==
    /\ InCell
    /\ ~cell_fits(Len(row), CurSpan.cols, active_row_spans)
    /\ row' = Append(row, None)
    /\ UNCHANGED <<pc, test, newargs, spaninfo, data, table, ri, ci,
                   active_row_spans, tvars>>

\* engine.rs 134, 138-143: the while loop ends and the cell is placed.
PlaceCell ==
    /\ InCell
    /\ cell_fits(Len(row), CurSpan.cols, active_row_spans)
    /\ LET st == place(row, active_row_spans, data[ri][ci], CurSpan)
       IN  /\ row' = st.row
           /\ active_row_spans' = st.ars
    /\ ci' = ci + 1
    /\ UNCHANGED <<pc, test, newargs, spaninfo, data, table, ri, tvars>>

\* A mutant of EndRow: dec is not called after a row without cells.
EndRowNoDecWhenEmpty ==
    /\ pc = "row"
    /\ ci > Len(data[ri])
    /\ table' = Append(table, row)
    /\ active_row_spans' = IF data[ri] = <<>> THEN active_row_spans
                                ELSE dec(active_row_spans)
    /\ row' = <<>>
    /\ ci' = 1
    /\ ri' = ri + 1
    /\ pc' = IF ri + 1 > Len(data) THEN "trail" ELSE "row"
    /\ UNCHANGED <<test, newargs, spaninfo, data, tvars>>

\* engine.rs 145-146: the row is complete.
EndRow ==
    /\ pc = "row"
    /\ ci > Len(data[ri])
    /\ table' = Append(table, row)
    /\ active_row_spans' = dec(active_row_spans)
    /\ row' = <<>>
    /\ ci' = 1
    /\ ri' = ri + 1
    /\ pc' = IF ri + 1 > Len(data) THEN "trail" ELSE "row"
    /\ UNCHANGED <<test, newargs, spaninfo, data, tvars>>

\* engine.rs 150-153: one iteration of the trailing-row loop.
TrailingRow ==
    /\ pc = "trail"
    /\ max_spanned(active_row_spans) # None
    /\ table' = Append(table, Nones(Unwrap(max_spanned(active_row_spans)) + 1))
    /\ active_row_spans' = dec(active_row_spans)
    /\ UNCHANGED <<pc, test, newargs, spaninfo, data, row, ri, ci, tvars>>

\* engine.rs 150, 154: the tracker is empty and the table is returned.
Return ==
    /\ pc = "trail"
    /\ max_spanned(active_row_spans) = None
    /\ pc' = "done"
    /\ UNCHANGED <<test, newargs, spaninfo, data, table, row, ri, ci,
                   active_row_spans, tvars>>

Next ==
    \/ InsertSpan
    \/ CallLayout
    \/ RunTest
    \/ SkipColumn
    \/ PlaceCell
    \/ EndRow
    \/ TrailingRow
    \/ Return

Spec == Init /\ [][Next]_vars

\* layout_table is sequential code: once called, its next step is taken.
EngineStep == SkipColumn \/ PlaceCell \/ EndRow \/ TrailingRow \/ Return

SpecLive == Spec /\ WF_vars(EngineStep)

\* ------------------------------------------------------------------------
\* The RowSpanTracker on its own: any sequence of calls from the empty
\* tracker (engine.rs 67-108)
\* ------------------------------------------------------------------------

TrackCols == 0..MaxTrackCol

InitTracker ==
    /\ pc = "tracker"
    /\ test = "none"
    /\ newargs = <<>>
    /\ spaninfo = EmptyMap
    /\ data = <<>>
    /\ table = <<>>
    /\ row = <<>>
    /\ ri = 1
    /\ ci = 1
    /\ active_row_spans = EmptyMap
    /\ calls = EmptyMap
    /\ lastop = NoOp

lvars == <<pc, test, newargs, spaninfo, data, table, row, ri, ci>>

\* active_row_spans.track(col, n)
TrackCall ==
    /\ pc = "tracker"
    /\ \E col \in TrackCols, n \in 0..MaxTrackRows :
          /\ active_row_spans' = track(active_row_spans, col, n)
          /\ calls' = IF active_row_spans' # active_row_spans \/ n > 1
                       THEN MapInsert(calls, col, [n |-> n, decs |-> 0])
                       ELSE calls
          /\ lastop' = [op |-> "track", col |-> col, n |-> n,
                        changed |-> active_row_spans' # active_row_spans,
                        hit |-> FALSE]
    /\ UNCHANGED lvars

\* active_row_spans.dec()
DecCall ==
    /\ pc = "tracker"
    /\ active_row_spans' = dec(active_row_spans)
    /\ calls' = [c \in DOMAIN calls |->
                    [calls[c] EXCEPT !.decs = IF @ < calls[c].n THEN @ + 1 ELSE @]]
    /\ lastop' = [op |-> "dec", col |-> 0, n |-> 0,
                  changed |-> active_row_spans' # active_row_spans,
                  hit |-> FALSE]
    /\ UNCHANGED lvars

\* active_row_spans.spanned(col): &self, the map is only read.
SpannedCall ==
    /\ pc = "tracker"
    /\ \E col \in TrackCols :
          /\ active_row_spans' = active_row_spans
          /\ lastop' = [op |-> "spanned", col |-> col, n |-> 0,
                        changed |-> active_row_spans' # active_row_spans,
                        hit |-> spanned(active_row_spans, col)]
    /\ UNCHANGED <<lvars, calls>>

\* active_row_spans.max_spanned(): &self, the map is only read.
MaxSpannedCall ==
    /\ pc = "tracker"
    /\ active_row_spans' = active_row_spans
    /\ LET r == max_spanned(active_row_spans)
       IN  lastop' = [op |-> "max_spanned",
                      col |-> IF r = None THEN 0 ELSE Unwrap(r), n |-> 0,
                      changed |-> active_row_spans' # active_row_spans,
                      hit |-> r # None]
    /\ UNCHANGED <<lvars, calls>>

NextTracker ==
    \/ TrackCall
    \/ DecCall
    \/ SpannedCall
    \/ MaxSpannedCall

SpecTracker == InitTracker /\ [][NextTracker]_vars

\* ------------------------------------------------------------------------
\* The geometry of the output
\* ------------------------------------------------------------------------

\* The output rows written so far, the row being built included.
OutRows == IF pc = "row" THEN Append(table, row) ELSE table

\* The positions <<r, c>> (row 1-based, column 0-based) that hold Some.
AnchorsOf(rows) ==
    UNION {{<<r, c>> : c \in {k \in 0..(Len(rows[r]) - 1) : IsSome(rows[r][k + 1])}} :
              r \in 1..Len(rows)}

Anchors == AnchorsOf(OutRows)

\* The span of the anchor written at <<r, c>>.
SpanAt(a) == Lookup(spaninfo, Unwrap(OutRows[a[1]][a[2] + 1]))

\* Position <<r, c>> lies in the extent of the anchor at a.
Covers(a, r, c) ==
    /\ a[1] <= r /\ r < a[1] + SpanAt(a).rows
    /\ a[2] <= c /\ c < a[2] + SpanAt(a).cols

\* The columns of row r occupied by a row span anchored in an earlier row.
BlockedCols(r) ==
    UNION {a[2]..(a[2] + SpanAt(a).cols - 1) :
              a \in {b \in Anchors : b[1] < r /\ r < b[1] + SpanAt(b).rows}}

\* The end (first column after the extent) of the last anchor of row r left
\* of column p, 0 if there is none.
PrevEnd(r, p) ==
    LET prev == {a \in Anchors : a[1] = r /\ a[2] < p}
    IN  IF prev = {} THEN 0
        ELSE LET c0 == SetMax({a[2] : a \in prev})
             IN  c0 + SpanAt(<<r, c0>>).cols

\* The positions of the finished rows that hold None.
Empties ==
    UNION {{<<r, c>> : c \in {k \in 0..(Len(table[r]) - 1) : table[r][k + 1] = None}} :
              r \in 1..Len(table)}

\* The positions <<r, i>> of the anchors of the input.
InputCells ==
    UNION {{<<r, i>> : i \in 1..Len(data[r])} : r \in 1..Len(data)}

InSpan(x) == Lookup(spaninfo, data[x[1]][x[2]])

\* ------------------------------------------------------------------------
\* Claims
\* ------------------------------------------------------------------------

\* C1: every anchor with column span C is written at the smallest column, at
\* or after the end of the previous anchor of its row, from which none of its
\* C columns is occupied by a row span anchored in an earlier row; every
\* column skipped on the way holds None.  While a row is being built, the
\* columns the tracker reports as spanned, from the end of the row buffer on,
\* are exactly the columns occupied by a row span anchored in an earlier row.
C1_PlacedAtFirstFit ==
    /\ pc = "row" =>
          {c \in DOMAIN active_row_spans :
              c >= Len(row) /\ spanned(active_row_spans, c)}
          = {c \in BlockedCols(Len(table) + 1) : c >= Len(row)}
    /\ \A a \in Anchors :
        LET r == a[1]
            p == a[2]
            C == SpanAt(a).cols
            B == BlockedCols(r)
        IN  /\ \A k \in p..(p + C - 1) : k \notin B
            /\ \A q \in PrevEnd(r, p)..(p - 1) :
                  /\ OutRows[r][q + 1] = None
                  /\ \E k \in q..(q + C - 1) : k \in B

\* C1 witness: an anchor two columns wide was pushed right although the
\* first candidate column was free, because a later column of its span was
\* blocked.
C1_Witness ==
    \E a \in Anchors :
        /\ SpanAt(a).cols >= 2
        /\ PrevEnd(a[1], a[2]) < a[2]
        /\ PrevEnd(a[1], a[2]) \notin BlockedCols(a[1])

\* The rows appended by the trailing-row loop.
TrailingRows == (Len(data) + 1)..Len(table)

\* The table test_trailing_rowspans expects (engine.rs 290-294).
ExpectedTrailing ==
    << <<Some("A"), Some("B"), Some("C")>>,
       <<None, None, None>>,
       <<None, None>> >>

\* C2: while a column is still occupied by a row span, a trailing row is
\* appended; it holds only None and its length is one more than the largest
\* column occupied in that row; layout_table returns only once no row span
\* reaches past the last row, with an empty tracker.  For B:(3,1), C:(2,1)
\* and the input [A,B,C] the output is [A,B,C], [None,None,None],
\* [None,None].
C2_TrailingRows ==
    /\ \A r \in TrailingRows :
          LET B == BlockedCols(r)
          IN  /\ B # {}
              /\ table[r] = Nones(SetMax(B) + 1)
    /\ pc = "trail" => DOMAIN active_row_spans = BlockedCols(Len(table) + 1)
    /\ pc = "done" =>
          /\ BlockedCols(Len(table) + 1) = {}
          /\ active_row_spans = EmptyMap
    /\ (pc = "done" /\ test = ScenarioD) => table = ExpectedTrailing

\* C2 witness: layout_table returned after two trailing rows of different
\* lengths.
C2_Witness ==
    /\ pc = "done"
    /\ Len(table) >= Len(data) + 2
    /\ Len(table[Len(table)]) < Len(table[Len(table) - 1])

\* C3: the number of Some entries of the returned table equals the number of
\* anchors of the input.
C3_PresentCount ==
    pc = "done" => Cardinality(Anchors) = Cardinality(InputCells)

\* C3 witness: layout_table returned a table for an input of at least three
\* anchors, one of them spanning two rows and two columns.
C3_Witness ==
    /\ pc = "done"
    /\ Cardinality(InputCells) >= 3
    /\ \E x \in InputCells : InSpan(x).rows >= 2 /\ InSpan(x).cols >= 2
    /\ Empties # {}

\* Every identifier of the input has the span (1,1) in the span table or is
\* absent from it.
AllUnit ==
    \A x \in InputCells :
        LET id == data[x[1]][x[2]]
        IN  id \notin DOMAIN spaninfo \/ spaninfo[id] = Span(1, 1)

\* The input with every identifier wrapped as Some.
Wrapped == [r \in 1..Len(data) |-> [i \in 1..Len(data[r]) |-> Some(data[r][i])]]

\* C4: when every identifier of the input has span (1,1), explicitly or by
\* default, the returned table is the input with every identifier wrapped as
\* Some.
C4_Identity ==
    (pc = "done" /\ AllUnit) => table = Wrapped

\* C4 witness: layout_table returned for an input of two rows in which one
\* identifier has an explicit (1,1) span and another has none.
C4_Witness ==
    /\ pc = "done"
    /\ AllUnit
    /\ Len(data) >= 2
    /\ \E x \in InputCells : data[x[1]][x[2]] \in DOMAIN spaninfo
    /\ \E x \in InputCells : data[x[1]][x[2]] \notin DOMAIN spaninfo

\* The columns of finished row r touched by the row's own anchors.
OwnCols(r) ==
    UNION {a[2]..(a[2] + SpanAt(a).cols - 1) : a \in {b \in Anchors : b[1] = r}}

\* C5 as stated: every finished row has an entry for every column touched by
\* its own anchors and for every column occupied in it by a row span
\* anchored in an earlier row.
C5_RowCoversInherited ==
    \A r \in 1..Len(table) :
        \A k \in OwnCols(r) \cup BlockedCols(r) : k < Len(table[r])

\* C5 amended: every finished row has an entry for every column touched by
\* its own anchors; a row built from an input row ends exactly where its last
\* anchor's span ends (it is empty when it has no anchor), whatever row spans
\* it inherits further right; a trailing row has an entry for every column
\* occupied in it by a row span.
C5_RowCoversOwn ==
    \A r \in 1..Len(table) :
        /\ \A k \in OwnCols(r) : k < Len(table[r])
        /\ r <= Len(data) => Len(table[r]) = PrevEnd(r, Len(table[r]))
        /\ r > Len(data) => \A k \in BlockedCols(r) : k < Len(table[r])

\* C5 witness: a finished row built from a non-empty input row is shorter
\* than a column it inherits from a row span of an earlier row.
C5_Witness ==
    \E r \in 1..Len(table) :
        /\ r <= Len(data)
        /\ Len(data[r]) > 0
        /\ \E k \in BlockedCols(r) : k >= Len(table[r])

\* Position e lies in the extent of an anchor written somewhere else.
Spanned(e) == \E a \in Anchors : a # e /\ Covers(a, e[1], e[2])

\* C6 as stated: every None of the finished rows lies in the extent of some
\* anchor.
C6_EmptyIsSpanned ==
    \A e \in Empties : Spanned(e)

\* Position e of an input row was skipped because the next anchor of the row,
\* tried at e, would have overlapped a column occupied from an earlier row.
SkippedFor(e) ==
    \E a \in Anchors :
        /\ a[1] = e[1]
        /\ PrevEnd(a[1], a[2]) <= e[2] /\ e[2] < a[2]
        /\ \E k \in e[2]..(e[2] + SpanAt(a).cols - 1) : k \in BlockedCols(e[1])

\* C6 amended: every None of the finished rows lies in the extent of some
\* anchor, or is a column of an input row at which the next anchor of that row
\* did not fit because its column span would have reached a column occupied
\* from an earlier row, or is a column of a trailing row left of a column
\* occupied in that row.
C6_EmptyIsSpannedOrSkipped ==
    \A e \in Empties :
        \/ Spanned(e)
        \/ e[1] <= Len(data) /\ SkippedFor(e)
        \/ e[1] > Len(data) /\ \E k \in BlockedCols(e[1]) : k > e[2]

\* C6 witness: the finished rows hold a None outside every extent in an input
\* row and another in a trailing row.
C6_Witness ==
    /\ \E e \in Empties : e[1] <= Len(data) /\ ~Spanned(e)
    /\ \E e \in Empties : e[1] > Len(data) /\ ~Spanned(e)

\* No anchor's row span reaches past the last input row.
NoOverhang == \A x \in InputCells : x[1] + InSpan(x).rows - 1 <= Len(data)

\* C7: if no anchor's row span reaches past the last input row, the tracker
\* is empty once the last input row has been processed, and the returned
\* table has as many rows as the input.
C7_NoTrailingRows ==
    (pc \in {"trail", "done"} /\ NoOverhang) =>
        /\ max_spanned(active_row_spans) = None
        /\ Len(table) = Len(data)

\* C7 witness: layout_table returned for an input with a row span of two or
\* more rows that ends exactly at the last input row.
C7_Witness ==
    /\ pc = "done"
    /\ NoOverhang
    /\ \E x \in InputCells :
          InSpan(x).rows >= 2 /\ x[1] + InSpan(x).rows - 1 = Len(data)

\* C8 as stated: in scenario E the anchor G is written one column right of
\* column 0, and the column occupied from the prior row is column 0.
C8_DisplacedByOne ==
    (test = ScenarioE /\ Len(table) >= 3) =>
        /\ table[3][2] = Some("G")
        /\ BlockedCols(3) = {0}

\* C8 amended: in scenario E the anchor G is written two columns right of
\* column 0, at column 2, behind two None entries; the only column occupied
\* from the prior row is column 1, the column of E.
C8_DisplacedByTwo ==
    (test = ScenarioE /\ Len(table) >= 3) =>
        /\ table[3][1] = None /\ table[3][2] = None
        /\ table[3][3] = Some("G")
        /\ table[2][2] = Some("E")
        /\ BlockedCols(3) = {1}

\* C8 witness: scenario E ran to the end.
C8_Witness ==
    /\ test = ScenarioE
    /\ pc = "done"
    /\ Len(table) = 5

\* C9: Span::new panics exactly when rows = 0 or cols = 0; otherwise it
\* yields the span of its arguments; so every span of the span table, the
\* default span and every span layout_table looks up has both dimensions >= 1.
C9_SpanNewValidates ==
    /\ newargs # <<>> =>
          (pc = "panic" <=> (newargs[1] = 0 \/ newargs[2] = 0))
    /\ (newargs # <<>> /\ pc = "build") =>
          \E id \in DOMAIN spaninfo : spaninfo[id] = Span(newargs[1], newargs[2])
    /\ \A id \in DOMAIN spaninfo : spaninfo[id].rows >= 1 /\ spaninfo[id].cols >= 1
    /\ SpanDefault.rows >= 1 /\ SpanDefault.cols >= 1
    /\ \A x \in InputCells : InSpan(x).rows >= 1 /\ InSpan(x).cols >= 1

\* C9 witness: after a successful Span::new, a call with rows >= 1 and
\* cols = 0 panicked.
C9_Witness ==
    /\ pc = "panic"
    /\ newargs # <<>>
    /\ newargs[1] >= 1 /\ newargs[2] = 0
    /\ spaninfo # EmptyMap

\* C10: on each of the scenarios A to E, layout_table of lib.rs returns the
\* table layout_table of engine.rs returns.
C10_EnginesAgree ==
    (pc = "done" /\ test \in Scenarios) =>
        table = lib_layout_table(spaninfo, data)

\* ------------------------------------------------------------------------
\* C11: after track(col, n) with n > 1 and no further track on col,
\* spanned(col) is true after k calls of dec for every 1 <= k <= n - 1 and
\* false after the n-th; a track call with n <= 1 leaves the tracker as it was.
\* ------------------------------------------------------------------------

C11_BlockedForNMinusOneRows ==
    /\ \A c \in DOMAIN calls :
          spanned(active_row_spans, c) <=> calls[c].decs < calls[c].n
    /\ (lastop.op = "track" /\ lastop.n <= 1) => ~lastop.changed

\* A count of 3 after its second dec and a count of 2 after its second dec.
C11_Witness ==
    /\ DOMAIN calls = {0, 1}
    /\ calls[0] = [n |-> 3, decs |-> 2]
    /\ calls[1] = [n |-> 2, decs |-> 2]
    /\ spanned(active_row_spans, 0)
    /\ ~spanned(active_row_spans, 1)

\* ------------------------------------------------------------------------
\* C12: the extents of the written anchors never overlap: below an anchor
\* with span (R, C) at row r, column c, every column of c..c+C-1 that exists
\* in a row r' with r < r' < r + R holds None, and no position lies in the
\* extents of two anchors; while the rows below an anchor are built, the
\* tracker holds the same remaining count for every column of its span.
\* ------------------------------------------------------------------------

C12_ExtentsDisjoint ==
    /\ pc = "done" =>
          \A a \in Anchors :
              LET s == SpanAt(a)
              IN  /\ \A r \in (a[1] + 1)..(a[1] + s.rows - 1) :
                        \A c \in a[2]..(a[2] + s.cols - 1) :
                            (r <= Len(table) /\ c < Len(table[r]))
                                => table[r][c + 1] = None
                  /\ \A b \in Anchors \ {a} :
                        \A c \in a[2]..(a[2] + s.cols - 1) :
                            \A r \in a[1]..(a[1] + s.rows - 1) : ~Covers(b, r, c)
    /\ pc \in {"row", "trail"} =>
          LET cur == Len(table) + 1
          IN  \A a \in Anchors :
                  LET s == SpanAt(a)
                  IN  (s.rows > 1 /\ cur < a[1] + s.rows) =>
                          \A c \in a[2]..(a[2] + s.cols - 1) :
                              /\ c \in DOMAIN active_row_spans
                              /\ active_row_spans[c] = a[1] + s.rows - cur

\* C12 witness: a returned table where an anchor two rows high and two
\* columns wide has a row below it that reaches past its extent, with another
\* anchor written in that row.
C12_Witness ==
    /\ pc = "done"
    /\ \E a \in Anchors :
          /\ SpanAt(a).rows >= 2
          /\ SpanAt(a).cols >= 2
          /\ \E b \in Anchors : b[1] = a[1] + 1 /\ b[2] >= a[2] + SpanAt(a).cols

\* ------------------------------------------------------------------------
\* C13: in every reachable state of the tracker during a layout, every
\* stored remaining-row count is greater than 1.
\* ------------------------------------------------------------------------

C13_CountsAboveOne ==
    \A c \in DOMAIN active_row_spans : active_row_spans[c] > 1

\* C13, amended: every stored count is at least 1, and it is the number of
\* rows, the one being built included, that the anchor's extent still
\* reaches; a count of 1 is stored for a column exactly while the last row
\* of the extent above it is built, and only a count that would become 0 is
\* never retained.
C13_CountsAtLeastOne ==
    /\ \A c \in DOMAIN active_row_spans : active_row_spans[c] >= 1
    /\ pc \in {"row", "trail"} =>
          LET cur == Len(table) + 1
          IN  \A c \in DOMAIN active_row_spans :
                  \E a \in Anchors :
                      /\ a[2] <= c /\ c < a[2] + SpanAt(a).cols
                      /\ a[1] <= cur
                      /\ active_row_spans[c] = a[1] + SpanAt(a).rows - cur

\* C13 witness: a row is being built under the last row of an extent, with
\* a stored count of 1.
C13_Witness ==
    /\ pc = "row"
    /\ \E c \in DOMAIN active_row_spans :
          /\ active_row_spans[c] = 1
          /\ c \in BlockedCols(Len(table) + 1)

\* ------------------------------------------------------------------------
\* C14: in every state reachable through track and dec from the empty
\* tracker, spanned(col) is true exactly when col is a key of the map: no
\* entry with count 0 is ever stored; spanned and max_spanned answer from
\* the map and leave it unchanged.
\* ------------------------------------------------------------------------

C14_SpannedIffKey ==
    /\ \A col \in TrackCols :
          spanned(active_row_spans, col) <=> col \in DOMAIN active_row_spans
    /\ \A col \in DOMAIN active_row_spans : active_row_spans[col] # 0
    /\ lastop.op \in {"spanned", "max_spanned"} => ~lastop.changed
    /\ lastop.op = "spanned" =>
          (lastop.hit <=> lastop.col \in DOMAIN active_row_spans)
    /\ lastop.op = "max_spanned" =>
          /\ lastop.hit <=> DOMAIN active_row_spans # {}
          /\ lastop.hit => lastop.col = SetMax(DOMAIN active_row_spans)

\* C14 witness: spanned(1) answered false after the entry of column 1 was
\* removed by dec, while column 0 is stored with its last count.
C14_Witness ==
    /\ lastop.op = "spanned"
    /\ lastop.col = 1
    /\ ~lastop.hit
    /\ 1 \in DOMAIN calls
    /\ 0 \in DOMAIN active_row_spans
    /\ active_row_spans[0] = 1

\* ------------------------------------------------------------------------
\* C15: during a run of layout_table, track is never called with a row
\* count greater than 1 on a column that already has an entry: no active
\* block is overwritten, neither by a second anchor of the same row nor by
\* an anchor of a later row.
\* ------------------------------------------------------------------------

\* The columns on which the step that writes the current cell calls track.
TrackedByPlace == Len(row)..(Len(row) + CurSpan.cols - 1)

C15_NoOverwrite ==
    [][(PlaceCell /\ CurSpan.rows > 1) =>
          \A c \in TrackedByPlace : c \notin DOMAIN active_row_spans]_vars

\* C15 witness: an anchor with a row span was written in a row in which a
\* column is blocked from an earlier row and another anchor of the same row
\* has already tracked its own column.
C15_Witness ==
    /\ pc = "row"
    /\ BlockedCols(Len(table) + 1) # {}
    /\ \E a, b \in Anchors :
          /\ a[1] = Len(table) + 1
          /\ b[1] = Len(table) + 1
          /\ a[2] < b[2]
          /\ SpanAt(a).rows > 1
          /\ SpanAt(b).rows > 1

\* ------------------------------------------------------------------------
\* C16: a zero-length input row produces an empty output row at the same
\* row index, and dec is still called once for it: every span whose extent
\* reaches the empty row has one row less remaining after it, so an anchor
\* with row span 2 written in the row just before an empty row blocks no
\* column in the row after the empty row.
\* ------------------------------------------------------------------------

\* The input rows already turned into output rows.
FinishedRows == 1..(IF Len(table) < Len(data) THEN Len(table) ELSE Len(data))

C16_EmptyRowStillDecs ==
    /\ \A r \in FinishedRows : data[r] = <<>> => table[r] = <<>>
    /\ LET cur == Len(table) + 1
       IN  (/\ pc \in {"row", "trail"}
            /\ row = <<>>
            /\ cur >= 3
            /\ cur - 1 \in FinishedRows
            /\ data[cur - 1] = <<>>)
           => \A a \in {b \in Anchors : /\ b[1] < cur - 1
                                        /\ b[1] + SpanAt(b).rows >= cur} :
                  \A c \in a[2]..(a[2] + SpanAt(a).cols - 1) :
                      /\ spanned(active_row_spans, c)
                            <=> a[1] + SpanAt(a).rows > cur
                      /\ spanned(active_row_spans, c)
                            => active_row_spans[c] = a[1] + SpanAt(a).rows - cur

\* C16 witness: an anchor with row span 2 was written just before an empty
\* input row, and the next input row starts with its column free.
C16_Witness ==
    /\ pc = "row"
    /\ row = <<>>
    /\ Len(table) >= 2
    /\ data[Len(table)] = <<>>
    /\ table[Len(table)] = <<>>
    /\ \E a \in Anchors :
          /\ a[1] = Len(table) - 1
          /\ SpanAt(a).rows = 2
          /\ ~spanned(active_row_spans, a[2])
    /\ Len(data[ri]) > 0

\* ------------------------------------------------------------------------
\* C17: layout_table terminates and returns a table for every finite input
\* table and span table with all dimensions >= 1: the loop that skips
\* columns ends after finitely many steps, and the trailing-row loop ends
\* after finitely many rows because every dec lowers each remaining count or
\* removes its entry.
\* ------------------------------------------------------------------------

RECURSIVE SumCols(_, _)
\* The column spans of the first n cells of an input row, added up.
SumCols(cells, n) ==
    IF n = 0 THEN 0
    ELSE SumCols(cells, n - 1) + Lookup(spaninfo, cells[n]).cols

\* The largest row span of an anchor of the input, 1 if there is none.
MaxInRows == SetMax({1} \cup {InSpan(x).rows : x \in InputCells})

\* The largest count stored in the tracker, 0 if there is none.
MaxCount ==
    SetMax({0} \cup {active_row_spans[c] : c \in DOMAIN active_row_spans})

\* What bounds the two loops: the row buffer never grows past the blocked
\* columns plus the columns of the cells written so far, and the trailing
\* rows written plus the largest remaining count never exceed the largest
\* row span less one.
C17_Variant ==
    /\ pc = "row" =>
          LET B == BlockedCols(Len(table) + 1)
          IN  Len(row) <= (IF B = {} THEN 0 ELSE SetMax(B) + 1)
                            + SumCols(data[ri], ci - 1)
    /\ pc = "trail" =>
          (Len(table) - Len(data)) + MaxCount <= MaxInRows - 1

C17_Terminates ==
    /\ []C17_Variant
    /\ (pc \in {"row", "trail"}) ~> (pc = "done")

\* C17 witness: layout_table returned after skipping a column and after
\* appending a trailing row.
C17_Witness ==
    /\ pc = "done"
    /\ Len(table) >= Len(data) + 1
    /\ \E r \in 1..Len(data), c \in 1..MaxCells :
          c < Len(table[r]) /\ table[r][c] = None

\* ------------------------------------------------------------------------
\* C18: for every input row i, the present values of output row i, read left
\* to right, are exactly input row i; output rows past the last input row
\* hold no present value.
\* ------------------------------------------------------------------------

RECURSIVE Presents(_)
\* The identifiers held by the Some entries of an output row, left to right.
Presents(r) ==
    IF r = <<>> THEN <<>>
    ELSE IF IsSome(Head(r)) THEN <<Unwrap(Head(r))>> \o Presents(Tail(r))
         ELSE Presents(Tail(r))

C18_RowsKeepTheirCells ==
    pc = "done" =>
        /\ Len(table) >= Len(data)
        /\ \A i \in 1..Len(table) :
              Presents(table[i]) = IF i <= Len(data) THEN data[i] ELSE <<>>

\* C18 witness: a returned table with a row whose cells were pushed apart by
\* None entries, and a trailing row.
C18_Witness ==
    /\ pc = "done"
    /\ Len(table) > Len(data)
    /\ \E i \in 1..Len(data) :
          /\ Len(data[i]) >= 2
          /\ Len(table[i]) > Len(data[i])
          /\ data[i][1] # data[i][2]

\* ------------------------------------------------------------------------
\* C19: the number of output rows is the larger of the number of input rows
\* and the largest r + R over all anchors, r being the anchor's input row
\* counted from 0 and R its row span.
\* ------------------------------------------------------------------------

C19_RowCount ==
    pc = "done" =>
        Len(table) = SetMax({Len(data)} \cup
                            {(x[1] - 1) + InSpan(x).rows : x \in InputCells})

\* C19 witness: a returned table that is longer than the input because of an
\* anchor of the last input row, with a row span anchored above it that ends
\* inside the input.
C19_Witness ==
    /\ pc = "done"
    /\ Len(data) >= 2
    /\ Len(table) > Len(data)
    /\ \E x, y \in InputCells :
          /\ x[1] < Len(data)
          /\ InSpan(x).rows >= 2
          /\ y[1] = Len(data)
          /\ (y[1] - 1) + InSpan(y).rows = Len(table)

====
